---- MODULE Spec2Model ----
(***************************************************************************)
(* Model of the people API server (src/src/main.rs): the local cache       *)
(* loaded at startup, the remote cache slot behind an RwLock, the          *)
(* background refresher (refresh_task / refresh_once) and the request      *)
(* handlers (local_people, remote_people, example_json, healthz).          *)
(*                                                                         *)
(* Byte strings (payloads, header values, etags) are sequences of byte     *)
(* values 0..255.  Option<T> is a sequence of length at most one:          *)
(* None == <<>>, Some(x) == <<x>>.                                         *)
(***************************************************************************)
EXTENDS Integers, Sequences, FiniteSets, TLC

VARIABLES
    mainPc,        \* position of main(): "load", "spawn", "bind", "serve", "exit"
    local_cache,   \* Option<Cached>: AppState.local_cache (None before load_local_cache returned)
    remote_cache,  \* Option<Cached>: the value inside AppState.remote_cache
    readers,       \* tasks holding the RwLock's read guard
    writer,        \* TRUE while the RwLock's write guard is held
    hpc,           \* per request task in remote_people: "idle" or "locked" (read guard held)
    lastResponse,  \* output of the step just taken: Some(request and response) when a
                   \* handler returned in it, None otherwise
    rpc,           \* position of refresh_task / refresh_once
    initial,       \* TRUE while refresh_task is in its initial warm (line 116)
    current_etag,  \* refresh_once: current_etag (line 126)
    req_inm,       \* refresh_once: If-None-Match header of the request built at line 128
    resp_etag,     \* refresh_once: etag extracted from the 200 response (line 132)
    resp,          \* the upstream response being processed (its ETag header and body)
    cached,        \* refresh_once: the Cached built at line 135
    result,        \* what refresh_once returned to refresh_task: "none", "ok", "err"
    readResult,    \* what fs::read returned in load_local_cache (None: Err, or not read yet)
    log,           \* the message most recently logged by the refresher or the loader
    attempts,      \* number of refresh_once calls started
    ticks,         \* number of ticker.tick() calls completed
    waited,        \* whether the tick() call completed last waited for the interval
    slotAtStart,   \* history: remote_cache when the current attempt started
    outcome,       \* history: what the upstream did in the current attempt
    storedFrom,    \* history: the upstream response the slot's entry was built from
    storedAttempt  \* history: the number of the attempt that stored it (0: none)

vars == <<mainPc, local_cache, remote_cache, readers, writer, hpc, lastResponse,
          rpc, initial, current_etag, req_inm, resp_etag, resp, cached,
          result, readResult, log, attempts, ticks, waited, slotAtStart, outcome,
          storedFrom, storedAttempt>>

---------------------------------------------------------------------------
(* Bounds *)

\* request tasks that can be inside remote_people at the same time
NumHandlers == 1
\* refresh_once calls the refresher makes
MaxAttempts == 2

Handlers == 1..NumHandlers
Refresher == 0

---------------------------------------------------------------------------
(* Option *)

None == <<>>
Some(x) == <<x>>
IsSome(o) == o # <<>>
Unwrap(o) == o[1]

---------------------------------------------------------------------------
(* Bytes, header values *)

\* b"\"" (lines 155, 157)
DQUOTE == 34

\* http::HeaderValue::to_str succeeds only on visible ASCII (32..126) and tab
is_visible_ascii(b) == (b >= 32 /\ b < 127) \/ b = 9
to_str_ok(v) == \A i \in 1..Len(v) : is_visible_ascii(v[i])

\* http::HeaderValue::from_str accepts bytes >= 32 other than 127, and tab
is_valid(b) == (b >= 32 /\ b # 127) \/ b = 9
from_str_ok(s) == \A i \in 1..Len(s) : is_valid(s[i])

---------------------------------------------------------------------------
(* strong_etag: '"' + lowercase hex of the digest + '"'.                   *)
(* The digest stands for SHA-256: a one-byte polynomial hash, injective    *)
(* on the payloads of this model (checked by DigestInjective).             *)

RECURSIVE Digest(_)
Digest(b) ==
    IF b = <<>> THEN 7
    ELSE (Digest(SubSeq(b, 1, Len(b) - 1)) * 31 + b[Len(b)]) % 256

\* hex::encode of one nibble: '0'..'9', 'a'..'f'
HexDigit(n) == IF n < 10 THEN 48 + n ELSE 87 + n
HexEncode(d) == <<HexDigit(d \div 16), HexDigit(d % 16)>>

strong_etag_raw(b) == <<DQUOTE>> \o <<Digest(b)>> \o <<DQUOTE>>
strong_etag(b) == <<DQUOTE>> \o HexEncode(Digest(b)) \o <<DQUOTE>>

---------------------------------------------------------------------------
(* Payloads and inputs *)

\* assets/people.sample.json and assets/example.json, embedded in the binary
EMBEDDED_LOCAL_PEOPLE == <<115>>
EMBEDDED_EXAMPLE == <<101>>
\* contents the file at LOCAL_PATH can have
FileContents == {<<102>>}
\* bodies the upstream can send
UpstreamBodies == {<<49>>, <<50>>}
\* ETag header values the upstream can send: "A" (text) and one obs-text byte
UpstreamEtags == {<<DQUOTE, 65, DQUOTE>>, <<200>>}
AllBodies == {EMBEDDED_LOCAL_PEOPLE, EMBEDDED_EXAMPLE} \cup FileContents \cup UpstreamBodies

\* upper-case variant of an ASCII string (a-z only)
Upper(s) == [i \in 1..Len(s) |-> IF s[i] >= 97 /\ s[i] <= 122 THEN s[i] - 32 ELSE s[i]]
Lower(s) == [i \in 1..Len(s) |-> IF s[i] >= 65 /\ s[i] <= 90 THEN s[i] + 32 ELSE s[i]]

\* If-None-Match values a client can send (HeaderValue: valid bytes only)
InmValues ==
    UpstreamEtags \cup {Lower(e) : e \in UpstreamEtags}
    \cup {strong_etag(b) : b \in {EMBEDDED_LOCAL_PEOPLE, EMBEDDED_EXAMPLE} \cup FileContents}
\* the request's If-None-Match header: absent or one of the values
Headers == {None} \cup {Some(v) : v \in InmValues}

OK == 200
NOT_MODIFIED == 304
\* statuses the upstream can answer besides 200 and 304
OtherStatuses == {404, 500}
\* no response: the handler task panicked
PANICKED == 0

JSON_UTF8 == "application/json; charset=utf-8"
PUBLIC_MAX_AGE == "public, max-age=30"

Cached(bytes, etag) == [bytes |-> bytes, etag |-> etag]

\* what the upstream can answer: <<status, ETag header, body>>; only the 200
\* responses' header and body are ever read
UpstreamResponses ==
    ({OK} \X ({None} \cup {Some(e) : e \in UpstreamEtags}) \X UpstreamBodies)
    \cup (({NOT_MODIFIED} \cup OtherStatuses) \X {None} \X {<<>>})

---------------------------------------------------------------------------
(* Responses *)

Response(status, ctype, cc, etag, body) ==
    [status |-> status, content_type |-> ctype, cache_control |-> cc,
     etag |-> etag, body |-> body]

\* StatusCode::NOT_MODIFIED.into_response(): no headers of the handler, no body
NotModifiedResponse == Response(NOT_MODIFIED, None, None, None, <<>>)
PanicResponse == Response(PANICKED, None, None, None, <<>>)

\* (h, bytes).into_response() with the three headers inserted;
\* HeaderValue::from_str(&etag).unwrap() panics on an invalid value
FullResponse(c) ==
    IF from_str_ok(c.etag)
    THEN Response(OK, Some(JSON_UTF8), Some(PUBLIC_MAX_AGE), Some(c.etag), c.bytes)
    ELSE PanicResponse

\* if let Some(inm) = headers.get(IF_NONE_MATCH) { if let Ok(s) = inm.to_str() { s == etag } }
InmMatches(headers, etag) ==
    /\ IsSome(headers)
    /\ to_str_ok(Unwrap(headers))
    /\ Unwrap(headers) = etag

InmMatchesNoCase(headers, etag) ==
    /\ IsSome(headers)
    /\ to_str_ok(Unwrap(headers))
    /\ Lower(Unwrap(headers)) = Lower(etag)

local_people_400(local, headers) ==
    IF IsSome(headers) /\ ~to_str_ok(Unwrap(headers))
    THEN Response(400, None, None, None, <<>>)
    ELSE IF InmMatches(headers, local.etag) THEN NotModifiedResponse
    ELSE FullResponse(local)

local_people(local, headers) ==
    IF InmMatches(headers, local.etag) THEN NotModifiedResponse
    ELSE FullResponse(local)

remote_entry_nocase(c, headers) ==
    IF InmMatchesNoCase(headers, c.etag) THEN NotModifiedResponse
    ELSE FullResponse(c)

\* remote_people, the branch where the slot holds an entry c (lines 92-100)
remote_entry(c, headers) ==
    IF InmMatches(headers, c.etag) THEN NotModifiedResponse
    ELSE FullResponse(c)

remote_fallback_unconditional(local, headers) == local_people(local, None)

\* remote_people, the branch where the slot is empty (lines 102-104)
remote_fallback(local, headers) == local_people(local, headers)

remote_people(slot, local, headers) ==
    IF IsSome(slot) THEN remote_entry(Unwrap(slot), headers)
    ELSE remote_fallback(local, headers)

example_json(headers) ==
    LET etag == strong_etag(EMBEDDED_EXAMPLE)
    IN  IF InmMatches(headers, etag) THEN NotModifiedResponse
        ELSE FullResponse(Cached(EMBEDDED_EXAMPLE, etag))

healthz == Response(OK, None, None, None, <<111, 107>>)

---------------------------------------------------------------------------
(* load_local_cache: read is fs::read's result, None for Err *)

load_local_cache_empty(read) ==
    IF IsSome(read)
    THEN Cached(Unwrap(read), strong_etag(Unwrap(read)))
    ELSE Cached(<<>>, strong_etag(EMBEDDED_LOCAL_PEOPLE))

load_local_cache(read) ==
    IF IsSome(read)
    THEN Cached(Unwrap(read), strong_etag(Unwrap(read)))
    ELSE Cached(EMBEDDED_LOCAL_PEOPLE, strong_etag(EMBEDDED_LOCAL_PEOPLE))

---------------------------------------------------------------------------
(* refresh_once, the pure parts *)

if_none_match_never(etag) == None

if_none_match_always(etag) == IF IsSome(etag) THEN etag ELSE Some(<<>>)

\* line 128: the request carries If-None-Match exactly when current_etag is Some
if_none_match(etag) == etag

\* line 132: resp.headers().get("ETag").and_then(|v| v.to_str().ok())
response_etag(hdr) ==
    IF IsSome(hdr) /\ to_str_ok(Unwrap(hdr)) THEN hdr ELSE None

new_cached_hash_only(etag, bytes) == Cached(bytes, strong_etag(bytes))

\* lines 134-135: etag.unwrap_or_else(|| strong_etag(&bytes)); Cached { bytes, etag }
new_cached(etag, bytes) ==
    Cached(bytes, IF IsSome(etag) THEN Unwrap(etag) ELSE strong_etag(bytes))

status_branch_unchecked(status) ==
    IF status = NOT_MODIFIED THEN "not_modified" ELSE "ok"

status_branch_no_304(status) ==
    IF status = OK \/ status = NOT_MODIFIED THEN "ok" ELSE "bail"

\* line 130: match resp.status()
status_branch(status) ==
    IF status = OK THEN "ok"
    ELSE IF status = NOT_MODIFIED THEN "not_modified"
    ELSE "bail"

store_entry_bytes_only(slot, c) ==
    IF IsSome(slot) THEN Some(Cached(c.bytes, Unwrap(slot).etag)) ELSE Some(c)

store_entry_if_empty(slot, c) == IF IsSome(slot) THEN slot ELSE Some(c)

\* line 136: *state.remote_cache.write().await = Some(cached)
store_entry(slot, c) == Some(c)

---------------------------------------------------------------------------
(* Init *)

Init ==
    /\ mainPc = "load"
    /\ local_cache = None
    /\ remote_cache = None
    /\ readers = {}
    /\ writer = FALSE
    /\ hpc = [h \in Handlers |-> "idle"]
    /\ lastResponse = None
    /\ rpc = "unspawned"
    /\ initial = TRUE
    /\ current_etag = None
    /\ req_inm = None
    /\ resp_etag = None
    /\ resp = None
    /\ cached = None
    /\ result = "none"
    /\ readResult = None
    /\ log = "none"
    /\ attempts = 0
    /\ ticks = 0
    /\ waited = FALSE
    /\ slotAtStart = None
    /\ outcome = "none"
    /\ storedFrom = None
    /\ storedAttempt = 0

mainVars == <<mainPc, local_cache, readResult>>
lockVars == <<readers, writer>>
handlerVars == <<hpc>>
refreshVars == <<rpc, initial, current_etag, req_inm, resp_etag, resp, cached,
                 result, log, attempts, ticks, waited, slotAtStart, outcome>>
slotVars == <<remote_cache, storedFrom, storedAttempt>>

---------------------------------------------------------------------------
(* main *)

\* line 48: load_local_cache(&local_path).await, fs::read returning r
LoadLocalCache ==
    /\ mainPc = "load"
    /\ \E r \in {None} \cup {Some(b) : b \in FileContents} :
          /\ readResult' = r
          /\ local_cache' = Some(load_local_cache(r))
    /\ mainPc' = "spawn"
    /\ lastResponse' = None
    /\ UNCHANGED <<lockVars, handlerVars, refreshVars, slotVars>>

refresh_task_entry_tick_first == "tick"

\* lines 107-116: refresh_task builds the client and calls refresh_once (the initial
\* warm) before it creates the ticker
refresh_task_entry == "begin"

\* line 57: tokio::spawn(refresh_task(...)); main goes on without awaiting it
SpawnRefresher ==
    /\ mainPc = "spawn"
    /\ mainPc' = "bind"
    /\ rpc' = refresh_task_entry
    /\ lastResponse' = None
    /\ UNCHANGED <<local_cache, readResult, lockVars, handlerVars, slotVars,
                   initial, current_etag, req_inm, resp_etag, resp, cached,
                   result, log, attempts, ticks, waited, slotAtStart, outcome>>

\* lines 71-73: bind succeeded, axum::serve accepts requests
BindOk ==
    /\ mainPc = "bind"
    /\ mainPc' = "serve"
    /\ lastResponse' = None
    /\ UNCHANGED <<local_cache, readResult, lockVars, handlerVars, refreshVars, slotVars>>

\* line 71: bind(addr).await? failed, main returns Err and the process ends
BindFail ==
    /\ mainPc = "bind"
    /\ mainPc' = "exit"
    /\ lastResponse' = None
    /\ UNCHANGED <<local_cache, readResult, lockVars, handlerVars, refreshVars, slotVars>>

\* the runtime is alive: spawned tasks run
Alive == mainPc \in {"bind", "serve"}

---------------------------------------------------------------------------
(* refresh_task and refresh_once *)

\* line 116 / 121: refresh_once is called; line 126: read().await is granted
RefreshAcquireRead ==
    /\ Alive
    /\ rpc = "begin"
    /\ attempts < MaxAttempts
    /\ ~writer
    /\ readers' = readers \cup {Refresher}
    /\ rpc' = "read_locked"
    /\ attempts' = attempts + 1
    /\ slotAtStart' = remote_cache
    /\ outcome' = "none"
    /\ result' = "none"
    /\ lastResponse' = None
    /\ UNCHANGED <<waited, mainVars, writer, handlerVars, slotVars, initial, current_etag,
                   req_inm, resp_etag, resp, cached, log, ticks>>

drop_read_guard_late(rs) == rs

\* line 126: the guard is a temporary of the let statement, dropped at its end
drop_read_guard(rs) == rs \ {Refresher}

\* lines 126-129: copy the etag, drop the read guard, build the request, send it
RefreshSend ==
    /\ Alive
    /\ rpc = "read_locked"
    /\ LET et == IF IsSome(remote_cache) THEN Some(Unwrap(remote_cache).etag) ELSE None
       IN  /\ current_etag' = et
           /\ req_inm' = if_none_match(et)
    /\ readers' = drop_read_guard(readers)
    /\ rpc' = "in_flight"
    /\ lastResponse' = None
    /\ UNCHANGED <<waited, mainVars, writer, handlerVars, slotVars, initial, resp_etag, resp,
                   cached, result, log, attempts, ticks, slotAtStart, outcome>>

\* line 129: send().await returned Ok(resp), one of the responses in answers;
\* lines 130-145: match resp.status()
RefreshRecvFrom(answers) ==
    /\ Alive
    /\ rpc = "in_flight"
    /\ \E r \in answers :
        LET status == r[1]
            hdr == r[2]
            body == r[3]
        IN
          /\ outcome' = IF status = OK THEN "200"
                        ELSE IF status = NOT_MODIFIED THEN "304" ELSE "status"
          /\ CASE status_branch(status) = "ok" ->
                    /\ resp_etag' = response_etag(hdr)
                    /\ resp' = Some([etag |-> hdr, body |-> body])
                    /\ rpc' = "reading_body"
                    /\ UNCHANGED <<waited, result, log>>
               [] status_branch(status) = "not_modified" ->
                    /\ log' = "remote not modified"
                    /\ result' = "ok"
                    /\ rpc' = "returned"
                    /\ UNCHANGED <<waited, resp_etag, resp>>
               [] OTHER ->
                    /\ result' = "err"
                    /\ rpc' = "returned"
                    /\ UNCHANGED <<waited, resp_etag, resp, log>>
    /\ lastResponse' = None
    /\ UNCHANGED <<waited, mainVars, lockVars, handlerVars, slotVars, initial, current_etag,
                   req_inm, cached, attempts, ticks, slotAtStart>>

\* any upstream
RefreshRecv == RefreshRecvFrom(UpstreamResponses)

\* an upstream that answers 304 only to a request carrying If-None-Match
ConformingResponses ==
    {r \in UpstreamResponses : r[1] = NOT_MODIFIED => IsSome(req_inm)}
RefreshRecvConforming == RefreshRecvFrom(ConformingResponses)

\* line 129: send().await? failed (connection error, or the 5 s timeout)
RefreshSendError ==
    /\ Alive
    /\ rpc = "in_flight"
    /\ outcome' = "send_error"
    /\ result' = "err"
    /\ rpc' = "returned"
    /\ lastResponse' = None
    /\ UNCHANGED <<waited, mainVars, lockVars, handlerVars, slotVars, initial, current_etag,
                   req_inm, resp_etag, resp, cached, log, attempts, ticks, slotAtStart>>

\* lines 133-135: resp.bytes().await returned the body; the Cached is built
RefreshBodyOk ==
    /\ Alive
    /\ rpc = "reading_body"
    /\ cached' = Some(new_cached(resp_etag, Unwrap(resp).body))
    /\ rpc' = "want_write"
    /\ lastResponse' = None
    /\ UNCHANGED <<waited, mainVars, lockVars, handlerVars, slotVars, initial, current_etag,
                   req_inm, resp_etag, resp, result, log, attempts, ticks,
                   slotAtStart, outcome>>

\* line 133: resp.bytes().await? failed
RefreshBodyErr ==
    /\ Alive
    /\ rpc = "reading_body"
    /\ outcome' = "body_error"
    /\ result' = "err"
    /\ rpc' = "returned"
    /\ lastResponse' = None
    /\ UNCHANGED <<waited, mainVars, lockVars, handlerVars, slotVars, initial, current_etag,
                   req_inm, resp_etag, resp, cached, log, attempts, ticks, slotAtStart>>

\* line 136: write().await is granted (no reader, no writer)
RefreshAcquireWrite ==
    /\ Alive
    /\ rpc = "want_write"
    /\ readers = {}
    /\ ~writer
    /\ writer' = TRUE
    /\ rpc' = "write_locked"
    /\ lastResponse' = None
    /\ UNCHANGED <<waited, mainVars, readers, handlerVars, slotVars, initial, current_etag,
                   req_inm, resp_etag, resp, cached, result, log, attempts, ticks,
                   slotAtStart, outcome>>

\* lines 136-137, 147: assign the slot, drop the write guard, log, return Ok
RefreshStore ==
    /\ Alive
    /\ rpc = "write_locked"
    /\ remote_cache' = store_entry(remote_cache, Unwrap(cached))
    /\ storedFrom' = resp
    /\ storedAttempt' = attempts
    /\ writer' = FALSE
    /\ log' = "remote cache refreshed"
    /\ result' = "ok"
    /\ rpc' = "returned"
    /\ lastResponse' = None
    /\ UNCHANGED <<waited, mainVars, readers, handlerVars, initial, current_etag, req_inm,
                   resp_etag, resp, cached, attempts, ticks, slotAtStart, outcome>>

on_result_abort(res, first, lg) ==
    IF res = "err" THEN [pc |-> "dead", log |-> "remote refresh failed"]
    ELSE [pc |-> "tick", log |-> lg]

\* lines 116, 121: if let Err(e) = refresh_once(..).await { error!(..) }, then the loop
on_result(res, first, lg) ==
    [pc |-> "tick",
     log |-> IF res = "err"
             THEN (IF first THEN "initial remote refresh failed" ELSE "remote refresh failed")
             ELSE lg]

\* refresh_task takes refresh_once's result, logs an Err, goes on to ticker.tick()
RefreshTaskLog ==
    /\ Alive
    /\ rpc = "returned"
    /\ rpc' = on_result(result, initial, log).pc
    /\ log' = on_result(result, initial, log).log
    /\ initial' = FALSE
    /\ current_etag' = None
    /\ req_inm' = None
    /\ resp_etag' = None
    /\ resp' = None
    /\ cached' = None
    /\ lastResponse' = None
    /\ UNCHANGED <<waited, mainVars, lockVars, handlerVars, slotVars, result, attempts, ticks,
                   slotAtStart, outcome>>

\* lines 118-120: time::interval's first tick completes immediately; each later
\* tick completes one interval after the one before (REFRESH_INTERVAL, 600 s by
\* default, is longer than an attempt, which the client's 5 s timeout ends)
tick_waits(n) == n > 0

\* line 120: ticker.tick().await completed
Tick ==
    /\ Alive
    /\ rpc = "tick"
    /\ ticks < MaxAttempts
    /\ ticks' = ticks + 1
    /\ waited' = tick_waits(ticks)
    /\ rpc' = "begin"
    /\ lastResponse' = None
    /\ UNCHANGED <<mainVars, lockVars, handlerVars, slotVars, initial, current_etag,
                   req_inm, resp_etag, resp, cached, result, log, attempts,
                   slotAtStart, outcome>>

---------------------------------------------------------------------------
(* Request handlers: a request is routed only while axum::serve runs *)

\* the initial refresh_once call (line 116) has returned
InitialDone == ~initial \/ rpc = "returned"

\* what a handler returned: the request, the slot value it read (remote_people only),
\* the response the slot's entry was built from, and whether the initial refresh_once
\* call had returned by then
Served(route, headers, slot, from, r) ==
    Some([route |-> route, headers |-> headers, slot |-> slot, from |-> from,
          warmed |-> InitialDone, resp |-> r])

\* line 60
Healthz ==
    /\ mainPc = "serve"
    /\ lastResponse' = Served("healthz", None, None, None, healthz)
    /\ UNCHANGED <<mainVars, lockVars, handlerVars, refreshVars, slotVars>>

\* lines 77-88: local_people has no suspension point
LocalPeople ==
    /\ mainPc = "serve"
    /\ \E headers \in Headers :
          lastResponse' = Served("local", headers, None, None,
                                 local_people(Unwrap(local_cache), headers))
    /\ UNCHANGED <<mainVars, lockVars, handlerVars, refreshVars, slotVars>>

\* lines 187-197
ExampleJson ==
    /\ mainPc = "serve"
    /\ \E headers \in Headers :
          lastResponse' = Served("example", headers, None, None, example_json(headers))
    /\ UNCHANGED <<mainVars, lockVars, handlerVars, refreshVars, slotVars>>

\* line 91: remote_cache.read().await is granted to request task h.  tokio's RwLock
\* is fair: a reader arriving while the writer is queued (rpc = "want_write") waits
\* behind it.
RemotePeopleLock(h) ==
    /\ mainPc = "serve"
    /\ hpc[h] = "idle"
    /\ ~writer
    /\ rpc # "want_write"
    /\ readers' = readers \cup {h}
    /\ hpc' = [hpc EXCEPT ![h] = "locked"]
    /\ lastResponse' = None
    /\ UNCHANGED <<mainVars, writer, refreshVars, slotVars>>

\* lines 91-104: clone the slot, answer from it or fall back to local_people;
\* the guard is dropped when the if-let ends.  The request's headers are read here
\* for the first time.
RemotePeopleServe(h) ==
    /\ mainPc = "serve"
    /\ hpc[h] = "locked"
    /\ \E headers \in Headers :
          lastResponse' = Served("people", headers, remote_cache, storedFrom,
                                 remote_people(remote_cache, Unwrap(local_cache), headers))
    /\ readers' = readers \ {h}
    /\ hpc' = [hpc EXCEPT ![h] = "idle"]
    /\ UNCHANGED <<mainVars, writer, refreshVars, slotVars>>

---------------------------------------------------------------------------

Next ==
    \/ LoadLocalCache
    \/ SpawnRefresher
    \/ BindOk
    \/ BindFail
    \/ RefreshAcquireRead
    \/ RefreshSend
    \/ RefreshRecv
    \/ RefreshSendError
    \/ RefreshBodyOk
    \/ RefreshBodyErr
    \/ RefreshAcquireWrite
    \/ RefreshStore
    \/ RefreshTaskLog
    \/ Tick
    \/ Healthz
    \/ LocalPeople
    \/ ExampleJson
    \/ \E h \in Handlers : RemotePeopleLock(h)
    \/ \E h \in Handlers : RemotePeopleServe(h)

Spec == Init /\ [][Next]_vars

\* the same program against an upstream that answers 304 only to conditional requests
NextConforming ==
    \/ LoadLocalCache
    \/ SpawnRefresher
    \/ BindOk
    \/ BindFail
    \/ RefreshAcquireRead
    \/ RefreshSend
    \/ RefreshRecvConforming
    \/ RefreshSendError
    \/ RefreshBodyOk
    \/ RefreshBodyErr
    \/ RefreshAcquireWrite
    \/ RefreshStore
    \/ RefreshTaskLog
    \/ Tick
    \/ Healthz
    \/ LocalPeople
    \/ ExampleJson
    \/ \E h \in Handlers : RemotePeopleLock(h)
    \/ \E h \in Handlers : RemotePeopleServe(h)

SpecConforming == Init /\ [][NextConforming]_vars

\* one step of the refresher task
RefresherStep ==
    \/ RefreshAcquireRead
    \/ RefreshSend
    \/ RefreshRecv
    \/ RefreshSendError
    \/ RefreshBodyOk
    \/ RefreshBodyErr
    \/ RefreshAcquireWrite
    \/ RefreshStore
    \/ RefreshTaskLog
    \/ Tick

\* main, the refresher and the /people request tasks: the tasks that share the
\* lock and the slot.  healthz, local_people and example_json read neither.
NextLive ==
    \/ LoadLocalCache
    \/ SpawnRefresher
    \/ BindOk
    \/ BindFail
    \/ RefresherStep
    \/ \E h \in Handlers : RemotePeopleLock(h)
    \/ \E h \in Handlers : RemotePeopleServe(h)

\* Scheduling: bind returns; the runtime keeps polling the refresher task, whose
\* send() and bytes() return or fail within the client's 5 s timeout and whose
\* ticker fires; a handler that holds the read guard runs to its return without
\* suspending; the lock grants the queued writer once the readers are gone.
Fairness ==
    /\ WF_vars(BindOk \/ BindFail)
    /\ WF_vars(RefresherStep)
    /\ \A h \in Handlers : WF_vars(RemotePeopleServe(h))

LiveSpec == Init /\ [][NextLive]_vars /\ Fairness

---------------------------------------------------------------------------
(* Sanity of the model's own data *)

\* the stand-in digest separates the payloads of the model
DigestInjective ==
    \A a, b \in AllBodies \cup {<<>>} : Digest(a) = Digest(b) => a = b

TypeOK ==
    /\ mainPc \in {"load", "spawn", "bind", "serve", "exit"}
    /\ rpc \in {"unspawned", "begin", "read_locked", "in_flight", "reading_body",
                "want_write", "write_locked", "returned", "tick"}
    /\ Len(remote_cache) <= 1
    /\ Len(local_cache) <= 1
    /\ readers \subseteq Handlers \cup {Refresher}
    /\ writer \in BOOLEAN
    /\ ~(writer /\ readers # {})
    /\ attempts \in 0..MaxAttempts
    /\ storedAttempt \in 0..MaxAttempts
    /\ waited \in BOOLEAN
    /\ ticks \in 0..MaxAttempts
    /\ DigestInjective

---------------------------------------------------------------------------
(* Claims *)

Resp == Unwrap(lastResponse)
Returned(route) == IsSome(lastResponse) /\ Resp.route = route
ExampleEntry == Cached(EMBEDDED_EXAMPLE, strong_etag(EMBEDDED_EXAMPLE))

\* the entry the spec prescribes for the 200 response r = [etag, body]
EntryOf(r) ==
    [bytes |-> r.body,
     etag |-> IF IsSome(r.etag) /\ to_str_ok(Unwrap(r.etag))
              THEN Unwrap(r.etag) ELSE strong_etag(r.body)]

\* the full 200 response the spec describes for entry e
Full200(e) ==
    [status |-> 200, content_type |-> Some(JSON_UTF8),
     cache_control |-> Some(PUBLIC_MAX_AGE), etag |-> Some(e.etag), body |-> e.bytes]
Bare304 ==
    [status |-> 304, content_type |-> None, cache_control |-> None,
     etag |-> None, body |-> <<>>]

\* conditional GET against entry e, as the spec states it: byte equality of the
\* validator and the etag, nothing else
ConditionalGetOf(e, headers) ==
    IF IsSome(headers) /\ Unwrap(headers) = e.etag THEN Bare304 ELSE Full200(e)

\* C1: every response of local_people, of remote_people serving a slot entry, and of
\* example_json is the 304 without body exactly when If-None-Match is present and
\* equals the entry's etag byte for byte, and otherwise the 200 with the entry's
\* bytes, its etag, Cache-Control public, max-age=30 and the JSON content type.
C1_ConditionalGet ==
    /\ Returned("local") => Resp.resp = ConditionalGetOf(Unwrap(local_cache), Resp.headers)
    /\ Returned("example") => Resp.resp = ConditionalGetOf(ExampleEntry, Resp.headers)
    /\ (Returned("people") /\ IsSome(Resp.slot)) =>
           Resp.resp = ConditionalGetOf(Unwrap(Resp.slot), Resp.headers)

\* remote_people answered 304 from a slot entry whose etag the upstream supplied
C1_Witness ==
    /\ Returned("people")
    /\ IsSome(Resp.slot)
    /\ Unwrap(Resp.slot).etag \in UpstreamEtags
    /\ Resp.resp.status = 304

\* C2: whenever remote_people reads an empty slot, its response is the one
\* local_people gives for the same If-None-Match, the 304/200 decision being made
\* against the local entry's etag.
C2_Fallback ==
    (Returned("people") /\ ~IsSome(Resp.slot)) =>
        /\ Resp.resp = local_people(Unwrap(local_cache), Resp.headers)
        /\ Resp.resp.status = 304 <=> Resp.headers = Some(Unwrap(local_cache).etag)
        /\ Resp.resp.status \in {200, 304}

\* /people answered 304 against the local etag while the first fetch was in flight
C2_Witness ==
    /\ Returned("people")
    /\ ~IsSome(Resp.slot)
    /\ Resp.resp.status = 304
    /\ rpc = "in_flight"

\* C3: the slot, and every value a /people reader obtains from it, is the
\* (bytes, etag) pair of one single refresh response, and the body and ETag of a
\* 200 response are those of the entry that was read.
C3_AtomicVisibility ==
    /\ IsSome(remote_cache) =>
           /\ IsSome(storedFrom)
           /\ Unwrap(remote_cache) = EntryOf(Unwrap(storedFrom))
    /\ (Returned("people") /\ IsSome(Resp.slot)) =>
           /\ IsSome(Resp.from)
           /\ Unwrap(Resp.slot) = EntryOf(Unwrap(Resp.from))
           /\ Resp.resp.status = 200 =>
                  Cached(Resp.resp.body, Unwrap(Resp.resp.etag)) = Unwrap(Resp.slot)

\* a reader got the old entry while the refresher waits to write a different one
C3_Witness ==
    /\ Returned("people")
    /\ IsSome(Resp.slot)
    /\ Resp.resp.status = 200
    /\ rpc = "want_write"
    /\ Unwrap(cached).bytes # Unwrap(Resp.slot).bytes
    /\ Unwrap(cached).etag # Unwrap(Resp.slot).etag

FailedOutcomes == {"status", "send_error", "body_error"}

\* C4: when a refresh_once attempt ends after an unexpected status, a send error or
\* a body read error, it returns Err with the slot as it was when the attempt
\* started, and refresh_task only logs the error and goes on to wait for the tick.
C4_FailedRefreshKeepsCache ==
    /\ []((rpc = "returned" /\ outcome \in FailedOutcomes) =>
             (remote_cache = slotAtStart /\ result = "err"))
    /\ [][(rpc = "returned" /\ outcome \in FailedOutcomes /\ rpc' # rpc) =>
             /\ rpc' = "tick"
             /\ log' \in {"initial remote refresh failed", "remote refresh failed"}
             /\ remote_cache' = remote_cache
             /\ mainPc' = mainPc]_vars

\* a body read error on a 200 response while the slot holds an entry
C4_Witness ==
    /\ rpc = "returned"
    /\ outcome = "body_error"
    /\ IsSome(remote_cache)

\* C5: when a refresh_once attempt receives 304 it returns Ok with the slot as it
\* was when the attempt started, and a /people request answered after it (before
\* the next attempt) is served from that same slot value.
C5_NotModifiedNoChange ==
    /\ (rpc = "returned" /\ outcome = "304") =>
           (remote_cache = slotAtStart /\ result = "ok")
    /\ (Returned("people") /\ outcome = "304" /\ rpc \in {"returned", "tick", "begin"}) =>
           /\ Resp.slot = slotAtStart
           /\ Resp.resp = remote_people(slotAtStart, Unwrap(local_cache), Resp.headers)

\* /people answered from the entry after a 304 attempt on a filled slot
C5_Witness ==
    /\ Returned("people")
    /\ outcome = "304"
    /\ rpc = "tick"
    /\ IsSome(Resp.slot)
    /\ Resp.resp.status = 200

\* C6: every response a handler returns has status 200 or 304; no handler panics,
\* whatever the slot holds and whatever If-None-Match carries.
C6_NoErrorResponses ==
    IsSome(lastResponse) => Resp.resp.status \in {200, 304}

\* /people re-emitted an etag the upstream supplied, to a malformed If-None-Match
C6_Witness ==
    /\ Returned("people")
    /\ IsSome(Resp.slot)
    /\ Unwrap(Resp.slot).etag \in UpstreamEtags
    /\ IsSome(Resp.headers)
    /\ ~to_str_ok(Unwrap(Resp.headers))
    /\ Resp.resp.status = 200
    /\ Resp.resp.etag = Some(Unwrap(Resp.slot).etag)

\* C7: the store step of a 200 refresh leaves in the slot exactly the response's
\* body with the response's ETag header (when present and text) or else
\* strong_etag(body); and every /people read of the slot made after it, until the
\* next store, answers 200 with that body and that ETag unless If-None-Match
\* equals that ETag.
C7_StoredEntry ==
    [][/\ (rpc = "write_locked" /\ rpc' = "returned") =>
              remote_cache' = Some(EntryOf(Unwrap(resp)))
       /\ (IsSome(lastResponse') /\ Unwrap(lastResponse').route = "people"
              /\ IsSome(storedFrom)) =>
              LET e == EntryOf(Unwrap(storedFrom))
                  r == Unwrap(lastResponse')
              IN  IF r.headers = Some(e.etag)
                  THEN r.resp.status = 304
                  ELSE /\ r.resp.status = 200
                       /\ r.resp.body = e.bytes
                       /\ r.resp.etag = Some(e.etag)]_vars

\* /people serves the fingerprint as ETag for a stored response whose ETag header
\* was present but not text
C7_Witness ==
    /\ Returned("people")
    /\ IsSome(storedFrom)
    /\ IsSome(Unwrap(storedFrom).etag)
    /\ ~to_str_ok(Unwrap(Unwrap(storedFrom).etag))
    /\ Resp.resp.status = 200
    /\ Resp.resp.etag = Some(strong_etag(Unwrap(storedFrom).body))
    /\ Resp.resp.body = Unwrap(storedFrom).body

\* C8: load_local_cache always yields an entry: the file's bytes when the read
\* succeeded, the embedded sample otherwise, with etag = strong_etag(bytes); and
\* main goes on from the load to spawning the refresher whatever the read returned.
C8_StartupFallback ==
    /\ [](mainPc # "load" =>
             /\ IsSome(local_cache)
             /\ Unwrap(local_cache).bytes =
                    (IF IsSome(readResult) THEN Unwrap(readResult) ELSE EMBEDDED_LOCAL_PEOPLE)
             /\ Unwrap(local_cache).etag = strong_etag(Unwrap(local_cache).bytes))
    /\ [][mainPc = "load" => mainPc' = "spawn"]_vars

\* the server serves the embedded sample after a failed read of LOCAL_PATH
C8_Witness ==
    /\ mainPc = "serve"
    /\ readResult = None
    /\ Returned("local")
    /\ Resp.resp.status = 200
    /\ Resp.resp.body = EMBEDDED_LOCAL_PEOPLE

Malformed(headers) == IsSome(headers) /\ ~to_str_ok(Unwrap(headers))

\* C9: a request whose If-None-Match is not readable as text gets, from each
\* resource handler, the 200 response the handler gives when the header is absent.
C9_MalformedInm ==
    /\ (Returned("local") /\ Malformed(Resp.headers)) =>
           /\ Resp.resp = local_people(Unwrap(local_cache), None)
           /\ Resp.resp.status = 200
    /\ (Returned("example") /\ Malformed(Resp.headers)) =>
           /\ Resp.resp = example_json(None)
           /\ Resp.resp.status = 200
    /\ (Returned("people") /\ Malformed(Resp.headers)) =>
           /\ Resp.resp = remote_people(Resp.slot, Unwrap(local_cache), None)
           /\ Resp.resp.status = 200

\* local_people answered a malformed If-None-Match with the full 200
C9_Witness ==
    /\ Returned("local")
    /\ Malformed(Resp.headers)
    /\ Resp.resp.status = 200
    /\ Resp.resp.body = Unwrap(local_cache).bytes

\* C10 as claimed: no /people request is answered before the initial refresh_once
\* call has returned.
C10_WarmBeforeServing ==
    Returned("people") => Resp.warmed

\* C10 amended: the initial refresh_once call is made before any timer tick, but
\* concurrently with serving; a /people request answered before that call has
\* returned reads an empty slot and gets the local fallback.
C10_InitialRefreshConcurrent ==
    /\ attempts = 0 => (ticks = 0 /\ rpc \in {"unspawned", "begin"})
    /\ (Returned("people") /\ ~Resp.warmed) =>
           /\ attempts <= 1
           /\ ticks = 0
           /\ ~IsSome(Resp.slot)
           /\ Resp.resp = local_people(Unwrap(local_cache), Resp.headers)

\* /people answered while the very first fetch is in flight
C10_Witness ==
    /\ Returned("people")
    /\ ~Resp.warmed
    /\ rpc = "in_flight"
    /\ attempts = 1

InAttempt == rpc \in {"read_locked", "in_flight", "reading_body", "want_write", "write_locked"}

\* C11 as claimed: every refresh_once call after the initial one is made after a
\* tick() that waited for the interval.
C11_IntervalBeforeEveryLaterAttempt ==
    (InAttempt /\ attempts >= 2) => waited

\* C12: while the server runs, every attempt ends; after an attempt has ended,
\* whatever its outcome, refresh_task goes to the tick and the next attempt starts
\* (as long as the bound on attempts allows one); an attempt starts only after
\* exactly one tick since the attempt before, so a failure brings no extra retry.
C12_RefresherNeverStops ==
    /\ (mainPc = "serve" /\ InAttempt) ~> (rpc = "returned")
    /\ \A n \in 1..(MaxAttempts - 1) :
           (mainPc = "serve" /\ rpc = "returned" /\ attempts = n) ~> (attempts = n + 1)
    /\ [][(rpc = "returned" /\ rpc' # rpc) => rpc' = "tick"]_vars
    /\ [][attempts' # attempts => (attempts' = attempts + 1 /\ ticks = attempts)]_vars

\* the attempt after a failed initial attempt has started
C12_Witness ==
    /\ rpc = "read_locked"
    /\ attempts = 2
    /\ ticks = 1
    /\ log = "initial remote refresh failed"

\* the validator of a slot value: its entry's etag, if it holds one
EtagOf(slot) == IF IsSome(slot) THEN Some(Unwrap(slot).etag) ELSE None

\* C13: the refresher holds the read guard only in the step that copies the etag
\* and the write guard only in the step that assigns the slot, and neither while
\* the request is in flight or the body is read; while a fetch is in flight a
\* request task can take the read guard, and a task holding it can return at once.
C13_NoLockAcrossIO ==
    /\ (Refresher \in readers) <=> (rpc = "read_locked")
    /\ writer <=> (rpc = "write_locked")
    /\ (rpc \in {"in_flight", "reading_body"}) => (Refresher \notin readers /\ ~writer)
    /\ \A h \in Handlers :
           /\ (h \in readers) <=> (hpc[h] = "locked")
           /\ (mainPc = "serve" /\ rpc \in {"in_flight", "reading_body"} /\ hpc[h] = "idle")
                  => ENABLED RemotePeopleLock(h)
           /\ hpc[h] = "locked" => ENABLED RemotePeopleServe(h)

\* a request task holds the read guard while the fetch is in flight
C13_Witness ==
    /\ rpc = "in_flight"
    /\ \E h \in Handlers : h \in readers
    /\ Refresher \notin readers

SentPcs == {"in_flight", "reading_body", "want_write", "write_locked", "returned"}

\* C14: the request of every attempt carries If-None-Match exactly when the slot
\* held an entry when the attempt started, with that entry's etag as its value.
C14_ConditionalFetch ==
    (rpc \in SentPcs) =>
        /\ IsSome(req_inm) <=> IsSome(slotAtStart)
        /\ req_inm = EtagOf(slotAtStart)

\* a conditional request carrying the etag the upstream supplied is in flight
C14_Witness ==
    /\ rpc = "in_flight"
    /\ IsSome(req_inm)
    /\ Unwrap(req_inm) \in UpstreamEtags
    /\ req_inm = EtagOf(remote_cache)

\* C15: against an upstream that answers 304 only to a request carrying
\* If-None-Match, an attempt that gets 304 started with an entry in the slot, and
\* "remote not modified" is logged only while the slot holds an entry.
C15_NotModifiedOnlyWarm ==
    /\ outcome = "304" => (IsSome(slotAtStart) /\ IsSome(remote_cache))
    /\ log = "remote not modified" => IsSome(remote_cache)

\* an attempt on a filled slot ended in the not-modified branch
C15_Witness ==
    /\ rpc = "returned"
    /\ outcome = "304"
    /\ log = "remote not modified"
    /\ IsSome(slotAtStart)

\* C16: the slot changes only in the store step of an attempt whose response was
\* 200; no handler step changes it; the local entry never changes once loaded, and
\* local_people always answers from the entry load_local_cache built.
C16_SingleWriterFrame ==
    /\ [][remote_cache' # remote_cache =>
              (rpc = "write_locked" /\ rpc' = "returned" /\ outcome = "200")]_vars
    /\ [][IsSome(lastResponse') => (remote_cache' = remote_cache /\ local_cache' = local_cache)]_vars
    /\ [][mainPc # "load" => local_cache' = local_cache]_vars
    /\ [](Returned("local") =>
             Resp.resp = local_people(load_local_cache(readResult), Resp.headers))

\* local_people answers 200 from the loaded entry after the refresher stored twice
C16_Witness ==
    /\ Returned("local")
    /\ Resp.resp.status = 200
    /\ Resp.resp.body = Unwrap(local_cache).bytes
    /\ storedAttempt = 2

\* C17: the slot is empty until the first attempt that completes with a 200: it
\* becomes filled only in the store step of a 200 attempt, stays empty through
\* failed and 304 attempts, and once filled is never empty again; a /people
\* request falls back to the local entry only if nothing was ever stored.
C17_ColdWarm ==
    /\ [](attempts = 0 => ~IsSome(remote_cache))
    /\ []((rpc = "returned" /\ outcome # "200" /\ ~IsSome(slotAtStart)) => ~IsSome(remote_cache))
    /\ [][(~IsSome(remote_cache) /\ IsSome(remote_cache')) =>
              (rpc = "write_locked" /\ outcome = "200")]_vars
    /\ [][IsSome(remote_cache) => IsSome(remote_cache')]_vars
    /\ []((Returned("people") /\ ~IsSome(Resp.slot)) => storedAttempt = 0)
    /\ []((Returned("people") /\ storedAttempt > 0) => IsSome(Resp.slot))

\* /people still falls back to the local entry after a failed and a 304 attempt
C17_Witness ==
    /\ Returned("people")
    /\ ~IsSome(Resp.slot)
    /\ attempts = 2
    /\ outcome = "304"
    /\ rpc = "returned"
    /\ log = "remote not modified"

\* C18: the slot always holds the entry built from the response of the latest
\* attempt that completed with a 200; the number of the attempt whose entry is in
\* the slot never decreases; attempts ending otherwise leave the slot as it was;
\* a /people request reads exactly the slot's current value.
C18_LatestSuccess ==
    /\ [](IsSome(remote_cache) <=> storedAttempt > 0)
    /\ [](storedAttempt > 0 => remote_cache = Some(EntryOf(Unwrap(storedFrom))))
    /\ [][storedAttempt' >= storedAttempt]_vars
    /\ [][storedAttempt' # storedAttempt =>
              /\ storedAttempt' = attempts
              /\ outcome = "200"
              /\ remote_cache' = Some(EntryOf(Unwrap(resp)))]_vars
    /\ [][remote_cache' # remote_cache => storedAttempt' > storedAttempt]_vars
    /\ []((rpc = "returned" /\ outcome # "200") => remote_cache = slotAtStart)
    /\ [](Returned("people") => Resp.slot = remote_cache)

\* /people serves the second 200 response's entry, which replaced a different one
C18_Witness ==
    /\ Returned("people")
    /\ storedAttempt = 2
    /\ IsSome(slotAtStart)
    /\ Unwrap(slotAtStart).bytes # Unwrap(Resp.slot).bytes
    /\ Resp.resp.status = 200
    /\ Resp.resp.body = Unwrap(storedFrom).body

\* C19: there is one refresher, spawned once, with at most one attempt under way;
\* from the moment an attempt has copied the etag until it stores or returns, the
\* slot is the one it read, so the validator it sent is the etag of the entry in
\* the slot (none was sent exactly if the slot is empty), also when the 304 or the
\* 200 is processed.
C19_NoLostUpdate ==
    /\ (rpc = "unspawned") <=> (mainPc \in {"load", "spawn"})
    /\ InAttempt => attempts = ticks + 1
    /\ (rpc \in {"in_flight", "reading_body", "want_write", "write_locked"}) =>
           /\ remote_cache = slotAtStart
           /\ req_inm = EtagOf(remote_cache)
    /\ (rpc = "returned" /\ outcome = "304") => req_inm = EtagOf(remote_cache)

\* a 200 response is about to be stored over the entry whose etag was sent
C19_Witness ==
    /\ rpc = "write_locked"
    /\ attempts = 2
    /\ IsSome(remote_cache)
    /\ req_inm = Some(Unwrap(remote_cache).etag)
    /\ Unwrap(cached) # Unwrap(remote_cache)

====
